---------------------------- MODULE Spec2Model ----------------------------
(***************************************************************************)
(* Model of the Vercel AI Gateway Plus credential (toRecord, authenticate) *)
(* and of the Vercel AI Gateway Plus chat-model node (toRecord,            *)
(* supplyData).                                                            *)
(*                                                                         *)
(* JavaScript values are tagged records, one payload field per tag.  A     *)
(* JavaScript string is a sequence of one-character strings, so that       *)
(* JSON.parse and JSON.stringify are computed character by character.      *)
(* A plain object is its sequence of own entries [k |-> key, v |-> value]  *)
(* in insertion order.  A Record<string, string> / header / query mapping  *)
(* is [t |-> "record", map |-> f], f a function from keys to strings.      *)
(***************************************************************************)
EXTENDS Integers, Sequences, FiniteSets, TLC

VARIABLES
    value,          \* toRecord: the argument
    credResult,     \* toRecord (credential copy): the returned value
    nodeResult,     \* toRecord (node copy): the returned value
    credentials,    \* authenticate / supplyData: the decrypted credential record
    requestOptions, \* authenticate: the mutable request options
    requestBefore,  \* authenticate: the request options as passed in
    authLocals,     \* authenticate: locals alive across the two awaits
    authPc,         \* authenticate: position in the async function
    nodeParams,     \* supplyData: model, user and options node parameters
    configuration,  \* supplyData: the ClientOptions built
    client          \* supplyData: the arguments the ChatOpenAI client got

vars == <<value, credResult, nodeResult, credentials, requestOptions,
          requestBefore, authLocals, authPc, nodeParams, configuration, client>>

---------------------------------------------------------------------------
(* Bounds of the model.                                                    *)

MaxEntries == 2      \* entries of an object passed to toRecord
MaxOverrides == 2    \* entries of an override object passed to authenticate
MaxSlashes == 2      \* trailing slashes appended to a credential url

---------------------------------------------------------------------------
(* JavaScript values.                                                      *)

Undef == [t |-> "undefined"]
Null == [t |-> "null"]
Num(n) == [t |-> "number", n |-> n]
Bool(b) == [t |-> "boolean", b |-> b]
Str(s) == [t |-> "string", s |-> s]
Arr(elems) == [t |-> "array", elems |-> elems]
Obj(entries) == [t |-> "object", entries |-> entries]
Rec(f) == [t |-> "record", map |-> f]
Pending == [t |-> "pending"]
Thrown == [t |-> "throw"]      \* a call that ended in an exception

EmptyMap == [k \in {} |-> <<>>]

\* {...a, ...b}: the own entries of a, then those of b, later ones winning.
Spread(a, b) ==
    [k \in (DOMAIN a) \cup (DOMAIN b) |-> IF k \in DOMAIN b THEN b[k] ELSE a[k]]

\* x ?? {} for a mapping that may be undefined.
OrEmpty(x) == IF x.t = "undefined" THEN EmptyMap ELSE x.map

---------------------------------------------------------------------------
(* Strings that occur in the source or in the inputs.                      *)

Quote == "\""
KeyProto == <<"_", "_", "p", "r", "o", "t", "o", "_", "_">>
KeyX == <<"x">>
KeyAuthorization ==
    <<"A", "u", "t", "h", "o", "r", "i", "z", "a", "t", "i", "o", "n">>
KeyHttpReferer == <<"h", "t", "t", "p", "-", "r", "e", "f", "e", "r", "e", "r">>
KeyXTitle == <<"x", "-", "t", "i", "t", "l", "e">>
BearerPrefix == <<"B", "e", "a", "r", "e", "r", " ">>
RefererValue ==
    <<"h", "t", "t", "p", "s", ":", "/", "/", "n", "8", "n", ".", "i", "o", "/">>
TitleValue == <<"n", "8", "n">>
TextValue == <<"t", "e", "x", "t">>
JsonObjectValue == <<"j", "s", "o", "n", "_", "o", "b", "j", "e", "c", "t">>

LitNull == <<"n", "u", "l", "l">>
LitTrue == <<"t", "r", "u", "e">>
LitFalse == <<"f", "a", "l", "s", "e">>
Digits == <<"0", "1", "2", "3", "4", "5", "6", "7", "8", "9">>

---------------------------------------------------------------------------
(* JSON.stringify, for the values of the model (strings hold no quote, no  *)
(* backslash and no control character, so no character is escaped).        *)

RECURSIVE NumText(_)
NumText(n) == IF n < 10 THEN <<Digits[n + 1]>>
              ELSE NumText(n \div 10) \o <<Digits[(n % 10) + 1]>>

RECURSIVE JSONstringify(_), StringifyElems(_, _), StringifyMembers(_, _, _)

JSONstringify(val) ==
    CASE val.t = "string" -> <<Quote>> \o val.s \o <<Quote>>
      [] val.t = "number" -> NumText(val.n)
      [] val.t = "boolean" -> IF val.b THEN LitTrue ELSE LitFalse
      [] val.t = "null" -> LitNull
      [] val.t = "array" -> <<"[">> \o StringifyElems(val.elems, 1) \o <<"]">>
      [] val.t = "object" -> <<"{">> \o StringifyMembers(val.entries, 1, TRUE) \o <<"}">>

\* An undefined array element is written as null.
StringifyElems(elems, i) ==
    IF i > Len(elems) THEN <<>>
    ELSE (IF i > 1 THEN <<",">> ELSE <<>>)
         \o (IF elems[i].t = "undefined" THEN LitNull ELSE JSONstringify(elems[i]))
         \o StringifyElems(elems, i + 1)

\* A member whose value is undefined is left out.
StringifyMembers(entries, i, first) ==
    IF i > Len(entries) THEN <<>>
    ELSE IF entries[i].v.t = "undefined" THEN StringifyMembers(entries, i + 1, first)
    ELSE (IF first THEN <<>> ELSE <<",">>)
         \o <<Quote>> \o entries[i].k \o <<Quote, ":">>
         \o JSONstringify(entries[i].v)
         \o StringifyMembers(entries, i + 1, FALSE)

---------------------------------------------------------------------------
(* JSON.parse, for texts over the characters of the model: structural      *)
(* characters, the space, string literals without escapes, unsigned        *)
(* integers, true, false and null.  The result is [ok, val]; ok = FALSE is *)
(* the SyntaxError JSON.parse throws.                                      *)

ParseFail == [ok |-> FALSE, val |-> Undef, pos |-> 0]
ParseOk(val, pos) == [ok |-> TRUE, val |-> val, pos |-> pos]

IsDigit(c) == \E d \in 1..10 : Digits[d] = c
DigitOf(c) == (CHOOSE d \in 1..10 : Digits[d] = c) - 1

RECURSIVE SkipWs(_, _)
SkipWs(s, i) == IF i <= Len(s) /\ s[i] = " " THEN SkipWs(s, i + 1) ELSE i

HasLit(s, i, lit) ==
    i + Len(lit) - 1 <= Len(s) /\ SubSeq(s, i, i + Len(lit) - 1) = lit

\* The index of the quote closing a string literal, 0 when there is none.
RECURSIVE ClosingQuote(_, _)
ClosingQuote(s, i) ==
    IF i > Len(s) THEN 0 ELSE IF s[i] = Quote THEN i ELSE ClosingQuote(s, i + 1)

ParseString(s, i) ==
    LET j == ClosingQuote(s, i + 1)
    IN  IF j = 0 THEN ParseFail ELSE ParseOk(Str(SubSeq(s, i + 1, j - 1)), j + 1)

RECURSIVE ParseDigits(_, _, _)
ParseDigits(s, i, n) ==
    IF i <= Len(s) /\ IsDigit(s[i]) THEN ParseDigits(s, i + 1, 10 * n + DigitOf(s[i]))
    ELSE ParseOk(Num(n), i)

\* A leading 0 is a number by itself: a digit after it is left unread and
\* fails the caller.
ParseNumber(s, i) ==
    IF s[i] = "0" THEN ParseOk(Num(0), i + 1) ELSE ParseDigits(s, i, 0)

\* obj[key] = val while parsing: a key seen again keeps its place and takes
\* the later value (own data property, also for "__proto__").
DefineEntry(entries, key, val) ==
    IF \E n \in 1..Len(entries) : entries[n].k = key
    THEN [n \in 1..Len(entries) |->
             IF entries[n].k = key THEN [k |-> key, v |-> val] ELSE entries[n]]
    ELSE Append(entries, [k |-> key, v |-> val])

RECURSIVE ParseValue(_, _), ParseElems(_, _, _), ParseMembers(_, _, _)

ParseValue(s, i0) ==
    LET i == SkipWs(s, i0)
    IN  IF i > Len(s) THEN ParseFail
        ELSE IF s[i] = "{" THEN
            LET j == SkipWs(s, i + 1)
            IN  IF j <= Len(s) /\ s[j] = "}" THEN ParseOk(Obj(<<>>), j + 1)
                ELSE ParseMembers(s, j, <<>>)
        ELSE IF s[i] = "[" THEN
            LET j == SkipWs(s, i + 1)
            IN  IF j <= Len(s) /\ s[j] = "]" THEN ParseOk(Arr(<<>>), j + 1)
                ELSE ParseElems(s, j, <<>>)
        ELSE IF s[i] = Quote THEN ParseString(s, i)
        ELSE IF IsDigit(s[i]) THEN ParseNumber(s, i)
        ELSE IF HasLit(s, i, LitNull) THEN ParseOk(Null, i + Len(LitNull))
        ELSE IF HasLit(s, i, LitTrue) THEN ParseOk(Bool(TRUE), i + Len(LitTrue))
        ELSE IF HasLit(s, i, LitFalse) THEN ParseOk(Bool(FALSE), i + Len(LitFalse))
        ELSE ParseFail

ParseElems(s, i, acc) ==
    LET r == ParseValue(s, i)
    IN  IF ~r.ok THEN ParseFail
        ELSE LET j == SkipWs(s, r.pos)
             IN  IF j > Len(s) THEN ParseFail
                 ELSE IF s[j] = "," THEN ParseElems(s, j + 1, Append(acc, r.val))
                 ELSE IF s[j] = "]" THEN ParseOk(Arr(Append(acc, r.val)), j + 1)
                 ELSE ParseFail

ParseMembers(s, i0, acc) ==
    LET i == SkipWs(s, i0)
    IN  IF i > Len(s) \/ s[i] # Quote THEN ParseFail
        ELSE LET key == ParseString(s, i)
             IN  IF ~key.ok THEN ParseFail
                 ELSE LET c == SkipWs(s, key.pos)
                      IN  IF c > Len(s) \/ s[c] # ":" THEN ParseFail
                          ELSE LET r == ParseValue(s, c + 1)
                               IN  IF ~r.ok THEN ParseFail
                                   ELSE LET j == SkipWs(s, r.pos)
                                            next == DefineEntry(acc, key.val.s, r.val)
                                        IN  IF j > Len(s) THEN ParseFail
                                            ELSE IF s[j] = "," THEN ParseMembers(s, j + 1, next)
                                            ELSE IF s[j] = "}" THEN ParseOk(Obj(next), j + 1)
                                            ELSE ParseFail

JSONparse(s) ==
    LET r == ParseValue(s, 1)
    IN  IF r.ok /\ SkipWs(s, r.pos) = Len(s) + 1
        THEN [ok |-> TRUE, val |-> r.val]
        ELSE [ok |-> FALSE, val |-> Undef]

---------------------------------------------------------------------------
(* toRecord.  The credential file and the node file each hold a copy.      *)

\* typeof source !== 'object' || source === null || Array.isArray(source)
NotPlainObjectNoArrayCheck(source) == source.t \notin {"object", "array"}

NotPlainObject(source) == source.t # "object"

\* Object.entries(source): the own entries of an object; of an array, its
\* elements under their indices.
ObjectEntries(source) ==
    IF source.t = "array"
    THEN [n \in 1..Len(source.elems) |-> [k |-> NumText(n - 1), v |-> source.elems[n]]]
    ELSE source.entries

\* acc[key] = str on the plain object acc = {}: an ordinary key becomes (or
\* updates) an own property; the key "__proto__" reaches the accessor that
\* Object.prototype defines, whose setter ignores a value that is neither an
\* object nor null, and str is a string: acc gets no own property.
AssignProp(acc, key, str) ==
    IF key = KeyProto THEN acc
    ELSE [k \in (DOMAIN acc) \cup {key} |-> IF k = key THEN str ELSE acc[k]]

RECURSIVE credReduce(_, _, _)
credReduce(entries, i, acc) ==
    IF i > Len(entries) THEN acc
    ELSE LET key == entries[i].k
             val == entries[i].v
         IN  IF val.t = "undefined" \/ val.t = "null"
             THEN credReduce(entries, i + 1, acc)
             ELSE credReduce(entries, i + 1,
                     AssignProp(acc, key,
                         IF val.t = "string" THEN val.s ELSE JSONstringify(val)))

\* A variant without the emptiness test of the last line.
credToRecordKeepsEmpty(val) ==
    IF val.t = "undefined" \/ val.t = "null" THEN Undef
    ELSE LET parsed == IF val.t = "string" THEN JSONparse(val.s)
                       ELSE [ok |-> TRUE, val |-> val]
             source == parsed.val
         IN  IF ~parsed.ok THEN Undef
             ELSE IF NotPlainObject(source) THEN Undef
             ELSE Rec(credReduce(ObjectEntries(source), 1, EmptyMap))

\* A variant without the try/catch around JSON.parse: the SyntaxError leaves
\* toRecord.
credToRecordUncaught(val) ==
    IF val.t = "undefined" \/ val.t = "null" THEN Undef
    ELSE LET parsed == IF val.t = "string" THEN JSONparse(val.s)
                       ELSE [ok |-> TRUE, val |-> val]
             source == parsed.val
         IN  IF ~parsed.ok THEN Thrown
             ELSE IF NotPlainObject(source) THEN Undef
             ELSE LET entries == credReduce(ObjectEntries(source), 1, EmptyMap)
                  IN  IF Cardinality(DOMAIN entries) > 0 THEN Rec(entries) ELSE Undef

credToRecord(val) ==
    IF val.t = "undefined" \/ val.t = "null" THEN Undef
    ELSE LET parsed == IF val.t = "string" THEN JSONparse(val.s)
                       ELSE [ok |-> TRUE, val |-> val]
             source == parsed.val
         IN  IF ~parsed.ok THEN Undef
             ELSE IF NotPlainObject(source) THEN Undef
             ELSE LET entries == credReduce(ObjectEntries(source), 1, EmptyMap)
                  IN  IF Cardinality(DOMAIN entries) > 0 THEN Rec(entries) ELSE Undef

RECURSIVE nodeReduce(_, _, _)
nodeReduce(entries, i, acc) ==
    IF i > Len(entries) THEN acc
    ELSE LET key == entries[i].k
             val == entries[i].v
         IN  IF val.t = "undefined" \/ val.t = "null"
             THEN nodeReduce(entries, i + 1, acc)
             ELSE nodeReduce(entries, i + 1,
                     AssignProp(acc, key,
                         IF val.t = "string" THEN val.s ELSE JSONstringify(val)))

\* A variant that takes objects only and does not parse a string.
nodeToRecordNoParse(val) ==
    IF val.t = "undefined" \/ val.t = "null" THEN Undef
    ELSE IF NotPlainObject(val) THEN Undef
    ELSE LET entries == nodeReduce(ObjectEntries(val), 1, EmptyMap)
         IN  IF Cardinality(DOMAIN entries) > 0 THEN Rec(entries) ELSE Undef

nodeToRecord(val) ==
    IF val.t = "undefined" \/ val.t = "null" THEN Undef
    ELSE LET parsed == IF val.t = "string" THEN JSONparse(val.s)
                       ELSE [ok |-> TRUE, val |-> val]
             source == parsed.val
         IN  IF ~parsed.ok THEN Undef
             ELSE IF NotPlainObject(source) THEN Undef
             ELSE LET entries == nodeReduce(ObjectEntries(source), 1, EmptyMap)
                  IN  IF Cardinality(DOMAIN entries) > 0 THEN Rec(entries) ELSE Undef

---------------------------------------------------------------------------
(* The values toRecord is applied to.                                      *)

Keys == {KeyX, KeyXTitle, KeyProto}

EntryValues ==
    {Undef, Null, Str(<<"1">>), Num(1), Num(10), Bool(TRUE),
     Arr(<<Num(1)>>), Obj(<<[k |-> KeyX, v |-> Null]>>)}

Entries(ks, vs) == [k : ks, v : vs]

\* Sequences of at most n entries; a key may occur twice (a JSON text may
\* repeat a key).
EntrySeqs(ks, vs, n) == UNION {[1..m -> Entries(ks, vs)] : m \in 0..n}

UniqueKeys(entries) ==
    \A m, n \in 1..Len(entries) : entries[m].k = entries[n].k => m = n

\* Plain objects: no key twice.
Objects(ks, vs, n) == {Obj(es) : es \in {e \in EntrySeqs(ks, vs, n) : UniqueKeys(e)}}

NonObjects ==
    {Undef, Null, Num(1), Num(10), Bool(TRUE), Bool(FALSE),
     Arr(<<>>), Arr(<<Num(1)>>), Arr(<<Obj(<<[k |-> KeyX, v |-> Str(<<"1">>)]>>)>>)}

\* JSON texts: the serialization of every entry sequence and of every value
\* that is not an object.
JsonTexts(ks, vs, n) ==
    {JSONstringify(Obj(es)) : es \in EntrySeqs(ks, vs, n)}
    \cup {JSONstringify(w) : w \in (NonObjects \ {Undef}) \cup {Str(<<"1">>)}}

\* The same text with a space after every colon and comma and around it.
RECURSIVE Spaced(_)
Spaced(s) ==
    IF s = <<>> THEN <<" ">>
    ELSE IF Head(s) \in {":", ","} THEN <<Head(s), " ">> \o Spaced(Tail(s))
    ELSE <<Head(s)>> \o Spaced(Tail(s))

\* Texts JSON.parse rejects: a text cut short at either end, a number with a
\* leading zero, two values, bare words, the empty string.
BrokenTexts(texts) ==
    {SubSeq(s, 1, Len(s) - 1) : s \in texts}
    \cup {SubSeq(s, 2, Len(s)) : s \in texts}
    \cup {<<>>, <<"0", "1">>, <<"1", " ", "1">>, <<"x">>, <<"{", "x", ":", "1", "}">>,
          <<"{", Quote, "x", Quote, ":", "1", ",", "}">>, <<"n", "u", "l">>}

Strings(ks, vs, n) ==
    LET texts == JsonTexts(ks, vs, n)
    IN  {Str(s) : s \in texts \cup {<<" ">> \o Spaced(t) : t \in texts}
                         \cup BrokenTexts(texts)}

ToRecordInputs ==
    NonObjects \cup Objects(Keys, EntryValues, MaxEntries)
               \cup Strings(Keys, EntryValues, MaxEntries)

---------------------------------------------------------------------------
(* Specification of toRecord: an argument, and one call of each copy.      *)

Idle == [t |-> "idle"]

InitToRecord ==
    /\ value \in ToRecordInputs
    /\ credResult = Pending
    /\ nodeResult = Pending
    /\ credentials = Idle
    /\ requestOptions = Idle
    /\ requestBefore = Idle
    /\ authLocals = Idle
    /\ authPc = "idle"
    /\ nodeParams = Idle
    /\ configuration = Idle
    /\ client = Idle

CallCredentialToRecord ==
    /\ credResult = Pending
    /\ credResult' = credToRecord(value)
    /\ UNCHANGED <<value, nodeResult, credentials, requestOptions, requestBefore,
                   authLocals, authPc, nodeParams, configuration, client>>

CallNodeToRecord ==
    /\ nodeResult = Pending
    /\ nodeResult' = nodeToRecord(value)
    /\ UNCHANGED <<value, credResult, credentials, requestOptions, requestBefore,
                   authLocals, authPc, nodeParams, configuration, client>>

NextToRecord == CallCredentialToRecord \/ CallNodeToRecord

SpecToRecord == InitToRecord /\ [][NextToRecord]_vars

---------------------------------------------------------------------------
(* VercelAiGatewayPlusApi.authenticate.                                    *)

baseHeaders(apiKey) ==
    (KeyAuthorization :> (BearerPrefix \o apiKey))
        @@ (KeyHttpReferer :> RefererValue) @@ (KeyXTitle :> TitleValue)

\* A variant without the test for the empty string.
ApiKeyRejectedTypeOnly(apiKey) == apiKey.t # "string"

\* typeof credentials.apiKey !== 'string' || credentials.apiKey === ''
ApiKeyRejected(apiKey) == apiKey.t # "string" \/ apiKey.s = <<>>

\* A variant that spreads the fixed headers last.
MergedHeadersFixedLast(headers, apiKey, additionalHeaders) ==
    Spread(Spread(OrEmpty(headers), OrEmpty(additionalHeaders)), baseHeaders(apiKey))

\* { ...(requestOptions.headers ?? {}), ...baseHeaders, ...(additionalHeaders ?? {}) }
MergedHeaders(headers, apiKey, additionalHeaders) ==
    Spread(Spread(OrEmpty(headers), baseHeaders(apiKey)), OrEmpty(additionalHeaders))

\* A variant that spreads the query string of the request last.
MergedQueryRequestLast(qs, additionalQuery) == Spread(additionalQuery.map, OrEmpty(qs))

\* { ...(requestOptions.qs ?? {}), ...additionalQuery }
MergedQuery(qs, additionalQuery) == Spread(OrEmpty(qs), additionalQuery.map)

\* From the call to the first await: the key is checked and
\* toRecord(additionalHeaders) runs.  An exception, thrown here or left
\* uncaught by toRecord, rejects the promise the async function returns.
AuthenticateEnter ==
    /\ authPc = "called"
    /\ LET additionalHeaders == credToRecord(credentials.additionalHeaders)
       IN  IF ApiKeyRejected(credentials.apiKey) \/ additionalHeaders = Thrown
           THEN /\ authPc' = "threw"
                /\ UNCHANGED authLocals
           ELSE /\ authPc' = "awaitHeaders"
                /\ authLocals' = [authLocals EXCEPT
                       !.additionalHeaders = additionalHeaders]
    /\ UNCHANGED <<value, credResult, nodeResult, credentials, requestOptions,
                   requestBefore, nodeParams, configuration, client>>

\* From the first await to the second: the headers are assigned and
\* toRecord(additionalQuery) runs.
AuthenticateHeaders ==
    /\ authPc = "awaitHeaders"
    /\ requestOptions' = [requestOptions EXCEPT
           !.headers = Rec(MergedHeaders(requestOptions.headers, credentials.apiKey.s,
                                         authLocals.additionalHeaders))]
    /\ LET additionalQuery == credToRecord(credentials.additionalQuery)
       IN  IF additionalQuery = Thrown
           THEN /\ authPc' = "threw"
                /\ UNCHANGED authLocals
           ELSE /\ authPc' = "awaitQuery"
                /\ authLocals' = [authLocals EXCEPT !.additionalQuery = additionalQuery]
    /\ UNCHANGED <<value, credResult, nodeResult, credentials, requestBefore,
                   nodeParams, configuration, client>>

\* From the second await to the return: the query string is assigned when
\* additionalQuery is truthy.
AuthenticateQuery ==
    /\ authPc = "awaitQuery"
    /\ requestOptions' =
           IF authLocals.additionalQuery.t = "record"
           THEN [requestOptions EXCEPT
                    !.qs = Rec(MergedQuery(requestOptions.qs, authLocals.additionalQuery))]
           ELSE requestOptions
    /\ authPc' = "returned"
    /\ UNCHANGED <<value, credResult, nodeResult, credentials, requestBefore,
                   authLocals, nodeParams, configuration, client>>

(* The inputs of authenticate. *)

HeaderKeys == {KeyX, KeyXTitle}
QueryKeys == {KeyX}
OverrideValues == {Null, Str(<<"1">>), Num(10)}
OverrideNonObjects == {Undef, Null, Num(1), Bool(TRUE), Arr(<<Num(1)>>)}

OverrideTexts(ks) ==
    {JSONstringify(Obj(es)) : es \in EntrySeqs(ks, OverrideValues, MaxOverrides)}
    \cup {JSONstringify(w) : w \in OverrideNonObjects \ {Undef}}
    \cup {<<>>, <<"0", "1">>, <<"x">>, <<"{", "x", ":", "1", "}">>,
          <<"{", Quote, "x", Quote, ":", "1", ",", "}">>, <<"{", Quote, "x", Quote, ":", "1">>,
          <<" ", "{", " ", Quote, "x", Quote, " ", ":", " ", "1", " ", "}", " ">>}

OverrideInputs(ks) ==
    OverrideNonObjects \cup Objects(ks, OverrideValues, MaxOverrides)
                       \cup {Str(s) : s \in OverrideTexts(ks)}

ApiKeys == {Undef, Num(1), Str(<<>>), Str(<<"k">>)}

DefaultUrl ==
    <<"h", "t", "t", "p", "s", ":", "/", "/", "x", "/", "v", "1">>

AuthCredentials ==
    [apiKey : ApiKeys, url : {Str(DefaultUrl)},
     additionalHeaders : OverrideInputs(HeaderKeys),
     additionalQuery : OverrideInputs(QueryKeys)]

RequestOptionsSet ==
    [url : {<<"/", "c", "h", "a", "t">>}, method : {"POST"},
     headers : {Undef, Rec((KeyX :> <<"o", "l", "d">>) @@ (KeyXTitle :> <<"o", "l", "d">>)
                               @@ (KeyAuthorization :> <<"o", "l", "d">>))},
     qs : {Undef, Rec((KeyX :> <<"o", "l", "d">>) @@ (KeyXTitle :> <<"o", "l", "d">>))}]

InitAuth ==
    /\ credentials \in AuthCredentials
    /\ requestOptions \in RequestOptionsSet
    /\ requestBefore = requestOptions
    /\ authLocals = [additionalHeaders |-> Pending, additionalQuery |-> Pending]
    /\ authPc = "called"
    /\ value = Idle
    /\ credResult = Idle
    /\ nodeResult = Idle
    /\ nodeParams = Idle
    /\ configuration = Idle
    /\ client = Idle

NextAuth == AuthenticateEnter \/ AuthenticateHeaders \/ AuthenticateQuery

SpecAuth == InitAuth /\ [][NextAuth]_vars

---------------------------------------------------------------------------
(* LmChatVercelAiGatewayPlus.supplyData.                                   *)

DefaultTimeout == 60000
DefaultMaxRetries == 2

\* x ?? d
Nullish(x, d) == IF x.t = "undefined" \/ x.t = "null" THEN d ELSE x

\* The truthiness of undefined, null, a string, a mapping.
Truthy(x) ==
    CASE x.t = "undefined" -> FALSE
      [] x.t = "null" -> FALSE
      [] x.t = "string" -> x.s # <<>>
      [] OTHER -> TRUE

\* s.replace(/\/+$/, ''): the longest run of slashes that ends the string is
\* removed.
RECURSIVE StripTrailingSlashes(_)
StripTrailingSlashes(s) ==
    IF s # <<>> /\ s[Len(s)] = "/" THEN StripTrailingSlashes(SubSeq(s, 1, Len(s) - 1))
    ELSE s

\* A variant that removes one trailing slash only.
baseURLStripsOneSlash(url) ==
    LET s == Nullish(url, Str(<<>>)).s
    IN  IF s # <<>> /\ s[Len(s)] = "/" THEN SubSeq(s, 1, Len(s) - 1) ELSE s

\* (credentials.url ?? '').replace(/\/+$/, '')
baseURLOf(url) == StripTrailingSlashes(Nullish(url, Str(<<>>)).s)

\* getProxyAgent(baseURL): the host's dispatcher for that target.
getProxyAgent(baseURL) == [t |-> "dispatcher", target |-> baseURL]

attributionHeaders == (KeyHttpReferer :> RefererValue) @@ (KeyXTitle :> TitleValue)

buildConfiguration(creds) ==
    LET baseURL == baseURLOf(creds.url)
        additionalHeaders == nodeToRecord(creds.additionalHeaders)
        additionalQuery == nodeToRecord(creds.additionalQuery)
    IN  [baseURL |-> IF baseURL # <<>> THEN Str(baseURL) ELSE Undef,
         fetchOptions |->
             IF baseURL # <<>>
             THEN [t |-> "fetchOptions", dispatcher |-> getProxyAgent(baseURL)]
             ELSE Undef,
         defaultHeaders |->
             IF Truthy(additionalHeaders)
             THEN Rec(Spread(attributionHeaders, additionalHeaders.map))
             ELSE Rec(attributionHeaders),
         defaultQuery |->
             IF Truthy(additionalQuery)
             THEN Rec(Spread(OrEmpty(Undef), additionalQuery.map))
             ELSE Undef]

\* A variant that sets the directive for 'json_object' only.
modelKwargsJsonOnly(options) ==
    IF options.responseFormat = Str(JsonObjectValue)
    THEN [t |-> "modelKwargs", response_format |-> [type |-> options.responseFormat]]
    ELSE Undef

\* options.responseFormat ? { response_format: { type: options.responseFormat } }
\*                        : undefined
modelKwargsOf(options) ==
    IF Truthy(options.responseFormat)
    THEN [t |-> "modelKwargs", response_format |-> [type |-> options.responseFormat]]
    ELSE Undef

\* The fields handed to new ChatOpenAI({...}); ...options comes first, so the
\* fields listed after it win.
SupplyData ==
    /\ client = Pending
    /\ LET options == nodeParams.options
           built == buildConfiguration(credentials)
       IN  /\ configuration' = built
           /\ client' =
                  [t |-> "ChatOpenAI",
                   apiKey |-> credentials.apiKey,
                   model |-> nodeParams.model,
                   responseFormat |-> options.responseFormat,
                   timeout |-> Nullish(options.timeout, Num(DefaultTimeout)),
                   maxRetries |-> Nullish(options.maxRetries, Num(DefaultMaxRetries)),
                   configuration |-> built,
                   user |-> IF Truthy(nodeParams.user) THEN nodeParams.user ELSE Undef,
                   modelKwargs |-> modelKwargsOf(options)]
    /\ UNCHANGED <<value, credResult, nodeResult, credentials, requestOptions,
                   requestBefore, authLocals, authPc, nodeParams>>

(* The inputs of supplyData. *)

RECURSIVE Slashes(_)
Slashes(n) == IF n = 0 THEN <<>> ELSE <<"/">> \o Slashes(n - 1)

UrlBases == {<<>>, <<"a">>, <<"/", "a">>, DefaultUrl}

Urls == {Undef} \cup {Str(b \o Slashes(n)) : b \in UrlBases, n \in 0..MaxSlashes}

NodeOverrides ==
    {Undef, Str(<<>>), Obj(<<[k |-> KeyX, v |-> Num(10)]>>),
     Str(JSONstringify(Obj(<<[k |-> KeyXTitle, v |-> Str(<<"1">>)]>>)))}

NodeCredentials ==
    [apiKey : {Str(<<"k">>)}, url : Urls,
     additionalHeaders : NodeOverrides, additionalQuery : NodeOverrides]

NodeOptions ==
    [responseFormat : {Undef, Str(TextValue), Str(JsonObjectValue)},
     timeout : {Undef, Num(360000)},
     maxRetries : {Undef, Num(0), Num(5)}]

NodeParams ==
    [model : {<<"m">>}, user : {Str(<<>>), Str(<<"u">>)}, options : NodeOptions]

InitSupply ==
    /\ credentials \in NodeCredentials
    /\ nodeParams \in NodeParams
    /\ configuration = Pending
    /\ client = Pending
    /\ value = Idle
    /\ credResult = Idle
    /\ nodeResult = Idle
    /\ requestOptions = Idle
    /\ requestBefore = Idle
    /\ authLocals = Idle
    /\ authPc = "idle"

NextSupply == SupplyData

SpecSupply == InitSupply /\ [][NextSupply]_vars

---------------------------------------------------------------------------
(* Properties of toRecord, checked under SpecToRecord.                     *)

Returned == {credResult, nodeResult} \ {Pending}

\* The value is none of: an object, a string that parses to an object.
AbsentCase(val) ==
    \/ val.t \in {"undefined", "null", "array", "number", "boolean"}
    \/ /\ val.t = "string"
       /\ \/ ~JSONparse(val.s).ok
          \/ JSONparse(val.s).val.t # "object"

\* The value is an object or a string that parses to one.
ObjectCase(val) == val.t \in {"object", "string"} /\ ~AbsentCase(val)

\* The entries of the object the value is or encodes.
EntriesOf(val) == IF val.t = "string" THEN JSONparse(val.s).val.entries ELSE val.entries

\* The positions of the entries whose value is neither null nor undefined.
Surviving(entries) ==
    {n \in 1..Len(entries) : entries[n].v.t \notin {"undefined", "null"}}

\* C4: toRecord returns absent for undefined, null, an array, a number, a
\* boolean, a string that is not valid JSON and a string whose JSON value is
\* not a non-null, non-array object.
C4_AbsentForNonObjects ==
    AbsentCase(value) => \A r \in Returned : r = Undef

C4_Witness ==
    /\ value.t = "array" /\ Len(value.elems) > 0
    /\ credResult = Undef /\ nodeResult = Undef

\* C5: for an object, or a string that parses to an object, with at least one
\* entry whose value is not null/undefined, toRecord returns a mapping whose
\* keys are exactly the keys of those entries, a string value kept and any
\* other value replaced by its JSON serialization.
C5_ExactlySurvivingEntries ==
    (ObjectCase(value) /\ Surviving(EntriesOf(value)) # {}) =>
        LET entries == EntriesOf(value)
        IN  \A r \in Returned :
                /\ r.t = "record"
                /\ DOMAIN r.map = {entries[n].k : n \in Surviving(entries)}
                /\ \A n \in Surviving(entries) :
                       r.map[entries[n].k] =
                           IF entries[n].v.t = "string" THEN entries[n].v.s
                           ELSE JSONstringify(entries[n].v)

\* The statement of C5 for the entries whose key is not "__proto__".
ExactlySurvivingEntriesButProto ==
    ObjectCase(value) =>
        LET entries == EntriesOf(value)
            kept == {n \in Surviving(entries) : entries[n].k # KeyProto}
        IN  \A r \in Returned :
                IF kept = {} THEN r = Undef
                ELSE /\ r.t = "record"
                     /\ DOMAIN r.map = {entries[n].k : n \in kept}
                     /\ \A n \in kept :
                            r.map[entries[n].k] =
                                IF entries[n].v.t = "string" THEN entries[n].v.s
                                ELSE JSONstringify(entries[n].v)

\* C6: toRecord never returns an empty mapping, and an object whose entries
\* are all null/undefined (the empty object too) yields absent.
C6_NeverEmptyMapping ==
    \A r \in Returned :
        /\ r = Undef \/ (r.t = "record" /\ DOMAIN r.map # {})
        /\ (ObjectCase(value) /\ Surviving(EntriesOf(value)) = {}) => r = Undef

C6_Witness ==
    /\ value.t = "object" /\ Len(value.entries) > 0
    /\ Surviving(value.entries) = {}
    /\ credResult = Undef /\ nodeResult = Undef

\* C8: the copy of toRecord in the credential file and the copy in the node
\* file return the same result for the same argument.
C8_CopiesAgree ==
    (credResult # Pending /\ nodeResult # Pending) => credResult = nodeResult

C8_Witness ==
    /\ value.t = "string"
    /\ credResult.t = "record" /\ nodeResult.t = "record"
    /\ Cardinality(DOMAIN credResult.map) = 2

---------------------------------------------------------------------------
(* Properties of authenticate, checked under SpecAuth.                     *)

FixedKeys == {KeyAuthorization, KeyHttpReferer, KeyXTitle}

\* The value the claims give each fixed header.
FixedValue(k, apiKey) ==
    CASE k = KeyAuthorization -> BearerPrefix \o apiKey
      [] k = KeyHttpReferer -> RefererValue
      [] k = KeyXTitle -> TitleValue

UsableKey(apiKey) == apiKey.t = "string" /\ Len(apiKey.s) > 0

\* C1: with an apiKey that is missing, not a string or empty, authenticate
\* raises the credential error and the request options are what they were.
C1_RejectedKeyLeavesRequest ==
    (authPc # "called" /\ ~UsableKey(credentials.apiKey)) =>
        /\ authPc = "threw"
        /\ requestOptions = requestBefore

C1_Witness ==
    /\ authPc = "threw"
    /\ credentials.apiKey = Str(<<>>)
    /\ credentials.additionalHeaders.t = "object"
    /\ requestBefore.headers # Undef

\* C2: after authenticate with a usable apiKey the headers are the headers of
\* the request, overlaid with the three fixed headers, overlaid with the
\* normalized additionalHeaders: an override wins over a fixed header, a fixed
\* header over a header of the request.
C2_HeaderPrecedence ==
    authPc = "returned" =>
        LET before == OrEmpty(requestBefore.headers)
            overrides == OrEmpty(authLocals.additionalHeaders)
            headers == requestOptions.headers
        IN  /\ headers.t = "record"
            /\ DOMAIN headers.map = DOMAIN before \cup FixedKeys \cup DOMAIN overrides
            /\ \A k \in DOMAIN overrides : headers.map[k] = overrides[k]
            /\ \A k \in FixedKeys \ DOMAIN overrides :
                   headers.map[k] = FixedValue(k, credentials.apiKey.s)
            /\ \A k \in DOMAIN before \ (FixedKeys \cup DOMAIN overrides) :
                   headers.map[k] = before[k]

C2_Witness ==
    /\ authPc = "returned"
    /\ requestBefore.headers # Undef
    /\ authLocals.additionalHeaders.t = "record"
    /\ KeyXTitle \in DOMAIN authLocals.additionalHeaders.map
    /\ requestOptions.headers.map[KeyXTitle] = <<"1">>
    /\ requestOptions.headers.map[KeyX] = <<"o", "l", "d">>

\* C7: with a usable apiKey authenticate raises no error whatever the two
\* override values are; an override value that is malformed JSON or no object
\* counts as no overrides: the headers are the headers of the request overlaid
\* with the fixed headers, the query string is left as it was.
C7_LenientOverrides ==
    UsableKey(credentials.apiKey) =>
        /\ authPc # "threw"
        /\ (authPc = "returned" /\ AbsentCase(credentials.additionalHeaders)) =>
               /\ requestOptions.headers.t = "record"
               /\ LET before == OrEmpty(requestBefore.headers)
                      headers == requestOptions.headers.map
                  IN  /\ DOMAIN headers = DOMAIN before \cup FixedKeys
                      /\ \A k \in FixedKeys :
                             headers[k] = FixedValue(k, credentials.apiKey.s)
                      /\ \A k \in DOMAIN before \ FixedKeys : headers[k] = before[k]
        /\ (authPc = "returned" /\ AbsentCase(credentials.additionalQuery)) =>
               requestOptions.qs = requestBefore.qs

C7_Witness ==
    /\ authPc = "returned"
    /\ credentials.additionalHeaders.t = "string"
    /\ Len(credentials.additionalHeaders.s) > 0
    /\ ~JSONparse(credentials.additionalHeaders.s).ok
    /\ credentials.additionalQuery.t = "array"
    /\ requestBefore.qs # Undef

\* C10: a successful authenticate changes the query string by the normalized
\* additionalQuery only: absent overrides leave qs as it was (not created);
\* otherwise a key of the request that no override uses keeps its value and
\* every override is present; nothing but headers and qs is modified.
C10_QueryFrame ==
    /\ authPc # "idle" =>
           /\ requestOptions.url = requestBefore.url
           /\ requestOptions.method = requestBefore.method
           /\ DOMAIN requestOptions = DOMAIN requestBefore
    /\ authPc = "returned" =>
           LET before == OrEmpty(requestBefore.qs)
               overrides == authLocals.additionalQuery
           IN  IF overrides = Undef THEN requestOptions.qs = requestBefore.qs
               ELSE /\ requestOptions.qs.t = "record"
                    /\ DOMAIN requestOptions.qs.map = DOMAIN before \cup DOMAIN overrides.map
                    /\ \A k \in DOMAIN overrides.map :
                           requestOptions.qs.map[k] = overrides.map[k]
                    /\ \A k \in DOMAIN before \ DOMAIN overrides.map :
                           requestOptions.qs.map[k] = before[k]

C10_Witness ==
    /\ authPc = "returned"
    /\ requestBefore.qs # Undef
    /\ authLocals.additionalQuery.t = "record"
    /\ requestOptions.qs.map[KeyX] = <<"1", "0">>
    /\ requestOptions.qs.map[KeyXTitle] = <<"o", "l", "d">>

\* The locals of authenticate hold what toRecord returns for the credential
\* fields (the two claims above read the normalized overrides off them).
LocalsAreNormalizedOverrides ==
    /\ authPc \in {"awaitHeaders", "awaitQuery", "returned"} =>
           authLocals.additionalHeaders = credToRecord(credentials.additionalHeaders)
    /\ authPc \in {"awaitQuery", "returned"} =>
           authLocals.additionalQuery = credToRecord(credentials.additionalQuery)

---------------------------------------------------------------------------
(* Properties of supplyData, checked under SpecSupply.                     *)

\* C3 as claimed: a response_format directive for 'json_object', no
\* modelKwargs for 'text' and for an unset responseFormat.
C3_NoDirectiveForText ==
    client # Pending =>
        LET responseFormat == nodeParams.options.responseFormat
        IN  /\ responseFormat = Str(JsonObjectValue) =>
                   /\ client.modelKwargs # Undef
                   /\ client.modelKwargs.response_format.type = Str(JsonObjectValue)
            /\ responseFormat \in {Str(TextValue), Undef} => client.modelKwargs = Undef

\* C3, amended: modelKwargs carries response_format with the type selected
\* whenever responseFormat is set, 'json_object' or 'text'; modelKwargs is
\* absent only when responseFormat is unset.  The directive is the JSON-mode
\* one exactly when 'json_object' was selected.
C3_DirectiveFollowsResponseFormat ==
    client # Pending =>
        LET responseFormat == nodeParams.options.responseFormat
        IN  /\ responseFormat = Undef => client.modelKwargs = Undef
            /\ responseFormat \in {Str(TextValue), Str(JsonObjectValue)} =>
                   /\ client.modelKwargs # Undef
                   /\ client.modelKwargs.response_format.type = responseFormat

C3_Witness ==
    /\ client # Pending
    /\ nodeParams.options.responseFormat = Str(TextValue)
    /\ client.modelKwargs # Undef
    /\ client.modelKwargs.response_format.type = Str(TextValue)

\* C9: the base URL of the configuration is the credential url without its
\* trailing slashes; a dispatcher is present exactly when that base URL is
\* not empty; a url that is missing, empty or all slashes gives no base URL
\* and no dispatcher.
C9_BaseUrlAndDispatcher ==
    client # Pending =>
        LET url == IF credentials.url = Undef THEN <<>> ELSE credentials.url.s
            \* the length of url without the slashes that end it
            n == CHOOSE m \in 0..Len(url) :
                     /\ \A i \in (m + 1)..Len(url) : url[i] = "/"
                     /\ m > 0 => url[m] # "/"
        IN  /\ n = 0 => /\ configuration.baseURL = Undef
                        /\ configuration.fetchOptions = Undef
            /\ n > 0 => /\ configuration.baseURL = Str(SubSeq(url, 1, n))
                        /\ configuration.fetchOptions # Undef
                        /\ configuration.fetchOptions.dispatcher.target = SubSeq(url, 1, n)
            /\ client.configuration = configuration

C9_Witness ==
    /\ client # Pending
    /\ credentials.url = Str(DefaultUrl \o <<"/", "/">>)
    /\ configuration.baseURL = Str(DefaultUrl)
    /\ configuration.fetchOptions # Undef

=============================================================================
